---- MODULE Spec2Model ----
(***************************************************************************)
(* Model of scripts/verify_variant.py: the VariantExtractor event handlers *)
(* (handle_starttag, handle_endtag, handle_data), _normalize_text,         *)
(* _diff_preview and main.                                                 *)
(*                                                                         *)
(* Strings that the code inspects character by character (text chunks and  *)
(* text nodes) are sequences of one-character strings.  Tag names,         *)
(* attribute names and attribute values are atoms (TLA+ strings).  An      *)
(* attribute value is a record [present, v]: present = FALSE is Python's   *)
(* None (an attribute written without a value).                            *)
(***************************************************************************)
EXTENDS Integers, Sequences, FiniteSets, Bags, TLC

VARIABLES
    parser,        \* the VariantExtractor that is being fed events
    prev,          \* history: parser as it was before the observed end tag
    last,          \* history: the observed end tag event (NoEvent before it)
    seen_ids,      \* history: see StartTag
    seen_hrefs,    \* history: see StartTag
    seen_text,     \* history: see Text
    suppressed,    \* history: whether an id / a text was delivered where it does not count
    pc,            \* main: position in the function body
    base,          \* main: what the path args.base holds (a document or NoFile)
    variant,       \* main: what the path args.variant holds
    unordered,     \* main: args.unordered_text
    base_ex,       \* main: local base_ex
    var_ex,        \* main: local var_ex
    ok,            \* main: local ok
    extract_calls, \* main: number of calls of extract() started so far
    stderr,        \* main: diagnostics printed to sys.stderr, in order
    stdout,        \* main: lines printed to sys.stdout, in order
    rc             \* main: the returned status (NoReturn while running)

extractor_vars == <<parser, prev, last, seen_ids, seen_hrefs, seen_text, suppressed>>
main_vars == <<pc, base, variant, unordered, base_ex, var_ex, ok,
               extract_calls, stderr, stdout, rc>>
vars == <<parser, prev, last, seen_ids, seen_hrefs, seen_text, suppressed,
          pc, base, variant, unordered, base_ex, var_ex, ok,
          extract_calls, stderr, stdout, rc>>

(***************************************************************************)
(* Bounds.                                                                 *)
(***************************************************************************)
MaxDepth == 2      \* open elements on the nesting stack
MaxTexts == 2      \* text nodes collected by one extractor
MaxAttrs == 2      \* attributes on one start tag
MaxDocLen == 3     \* events in a document given to main
MaxNodes == 11     \* text nodes per side when main's checks start from drawn extractions

(***************************************************************************)
(* Python values.                                                          *)
(***************************************************************************)
None == [present |-> FALSE, v |-> ""]
Some(s) == [present |-> TRUE, v |-> s]

\* str.lower() on the tag and attribute names used as inputs.
Lower(s) ==
    CASE s = "A" -> "a"
      [] s = "SVG" -> "svg"
      [] s = "DEFS" -> "defs"
      [] s = "ID" -> "id"
      [] s = "HREF" -> "href"
      [] OTHER -> s

\* The characters the regular expression class \s and str.strip() treat as
\* white space, among the characters used as inputs.
IsSpace(c) == c \in {" ", "\t", "\n"}

EXCLUDED_TEXT_TAGS == {"script", "style", "svg", "defs"}

Range(s) == {s[i] : i \in DOMAIN s}

(***************************************************************************)
(* _normalize_text: re.sub(r"\s+", " ", text).strip()                      *)
(***************************************************************************)
RECURSIVE LStrip(_)
LStrip(s) ==
    IF s = <<>> THEN <<>>
    ELSE IF IsSpace(Head(s)) THEN LStrip(Tail(s))
    ELSE s

RECURSIVE RStrip(_)
RStrip(s) ==
    IF s = <<>> THEN <<>>
    ELSE IF IsSpace(s[Len(s)]) THEN RStrip(SubSeq(s, 1, Len(s) - 1))
    ELSE s

\* str.strip()
Strip(s) == RStrip(LStrip(s))

\* re.sub(r"\s+", " ", s): every maximal run of white space becomes one space.
RECURSIVE SubSpaces(_)
SubSpaces(s) ==
    IF s = <<>> THEN <<>>
    ELSE IF IsSpace(Head(s)) THEN <<" ">> \o SubSpaces(LStrip(Tail(s)))
    ELSE <<Head(s)>> \o SubSpaces(Tail(s))

_normalize_text(text) == Strip(SubSpaces(text))

(***************************************************************************)
(* VariantExtractor.                                                       *)
(***************************************************************************)
\* __init__
VariantExtractor ==
    [_stack |-> <<>>, text_nodes |-> <<>>, ids |-> {}, anchor_hrefs |-> {}]

\* Mutant: only the innermost open element is looked at.
TopOnly_in_excluded_text_context(self) ==
    self._stack /= <<>> /\ self._stack[Len(self._stack)] \in EXCLUDED_TEXT_TAGS

\* property _in_excluded_text_context
_in_excluded_text_context(self) ==
    \E i \in DOMAIN self._stack : self._stack[i] \in EXCLUDED_TEXT_TAGS

\* Mutant: an href counts only when its value is truthy, as an id does.
TruthyHrefStartTagAttr(self, tag, in_svg_context, attr) ==
    LET name == attr[1]
        value == attr[2]
        name_l == Lower(name)
        with_id ==
            IF name_l = "id" /\ (value.present /\ value.v /= "") /\ ~in_svg_context
            THEN [self EXCEPT !.ids = @ \cup {value.v}]
            ELSE self
        with_href ==
            IF tag = "a" /\ name_l = "href" /\ (value.present /\ value.v /= "")
            THEN [with_id EXCEPT !.anchor_hrefs = @ \cup {value.v}]
            ELSE with_id
    IN  IF name = "" THEN self ELSE with_href

\* The body of the loop over attrs in handle_starttag, for one attribute
\* attr = <<name, value>>; tag is already lower-cased and pushed.
StartTagAttr(self, tag, in_svg_context, attr) ==
    LET name == attr[1]
        value == attr[2]
        name_l == Lower(name)
        with_id ==
            IF name_l = "id" /\ (value.present /\ value.v /= "") /\ ~in_svg_context
            THEN [self EXCEPT !.ids = @ \cup {value.v}]
            ELSE self
        with_href ==
            IF tag = "a" /\ name_l = "href" /\ value.present
            THEN [with_id EXCEPT !.anchor_hrefs = @ \cup {value.v}]
            ELSE with_id
    IN  IF name = "" THEN self ELSE with_href

RECURSIVE StartTagAttrs(_, _, _, _)
StartTagAttrs(self, tag, in_svg_context, attrs) ==
    IF attrs = <<>> THEN self
    ELSE StartTagAttrs(StartTagAttr(self, tag, in_svg_context, Head(attrs)),
                       tag, in_svg_context, Tail(attrs))

\* Mutant: in_svg_context is computed before the tag is pushed.
SvgBeforePush_handle_starttag(self, tag0, attrs) ==
    LET tag == Lower(tag0)
        pushed == [self EXCEPT !._stack = Append(@, tag)]
        in_svg_context == \E i \in DOMAIN self._stack : self._stack[i] = "svg"
    IN  StartTagAttrs(pushed, tag, in_svg_context, attrs)

handle_starttag(self, tag0, attrs) ==
    LET tag == Lower(tag0)
        pushed == [self EXCEPT !._stack = Append(@, tag)]
        in_svg_context == \E i \in DOMAIN pushed._stack : pushed._stack[i] = "svg"
    IN  StartTagAttrs(pushed, tag, in_svg_context, attrs)

\* Mutant: the stack is searched from the bottom, so the oldest open
\* element of that name is the one closed.
FromBottomEndTagScan(stack, tag, i) ==
    IF \E k \in 1..i : stack[k] = tag
    THEN SubSeq(stack, 1, (CHOOSE k \in 1..i :
                              stack[k] = tag /\ \A j \in 1..(k - 1) : stack[j] /= tag) - 1)
    ELSE stack

\* The loop of handle_endtag: i runs from the top of the stack downwards
\* (1-based here) and the first match deletes _stack[i:].
RECURSIVE EndTagScan(_, _, _)
EndTagScan(stack, tag, i) ==
    IF i < 1 THEN stack
    ELSE IF stack[i] = tag THEN SubSeq(stack, 1, i - 1)
    ELSE EndTagScan(stack, tag, i - 1)

handle_endtag(self, tag0) ==
    LET tag == Lower(tag0)
    IN  [self EXCEPT !._stack = EndTagScan(@, tag, Len(@))]

handle_data(self, data) ==
    IF _in_excluded_text_context(self) THEN self
    ELSE LET normalized == _normalize_text(data)
         IN  IF normalized = <<>> THEN self
             ELSE [self EXCEPT !.text_nodes = Append(@, normalized)]

(***************************************************************************)
(* Events delivered by the HTML tokenizer, and the inputs they are drawn   *)
(* from.                                                                   *)
(***************************************************************************)
StartTagEvent(tag, attrs) == [kind |-> "start", name |-> tag, attrs |-> attrs, data |-> <<>>]
EndTagEvent(tag) == [kind |-> "end", name |-> tag, attrs |-> <<>>, data |-> <<>>]
TextEvent(data) == [kind |-> "text", name |-> "", attrs |-> <<>>, data |-> data]
NoEvent == [kind |-> "none", name |-> "", attrs |-> <<>>, data |-> <<>>]

\* All sequences over S of length at most n.
SeqsUpTo(S, n) == UNION {[1..k -> S] : k \in 0..n}

\* Inputs of the attribute specification: anchors, svg and a neutral element,
\* with every shape of id and href attribute.
AttrTags == {"div", "a", "A", "svg", "SVG"}
Attrs ==
    { <<"id", Some("x")>>, <<"ID", Some("y")>>, <<"id", Some("")>>, <<"id", None>>,
      <<"href", Some("x")>>, <<"HREF", Some("")>>, <<"href", None>> }
AttrLists == SeqsUpTo(Attrs, MaxAttrs)

\* Inputs of the text specification: every excluded tag, an anchor and a
\* neutral element; chunks with leading, trailing, inner and only white space.
TextTags == {"div", "a", "script", "style", "svg", "DEFS"}
TextAttrLists == { <<>>, << <<"id", Some("x")>> >>, << <<"href", Some("x")>> >> }
Chunks ==
    { <<"h">>, <<"w">>, <<" ">>, <<"\n", "\t">>,
      <<" ", "h", " ", "\n", "w", "\t">> }

(***************************************************************************)
(* What the history variables record, in the words of the specification.   *)
(***************************************************************************)
\* The values of the id attributes of a start tag that count as page ids:
\* named id in any letter case, non-empty, no svg on the stack once the tag
\* itself is pushed.
IdsCarried(attrs, stack_after) ==
    IF \E i \in DOMAIN stack_after : stack_after[i] = "svg" THEN {}
    ELSE {attrs[i][2].v : i \in {j \in DOMAIN attrs :
              /\ attrs[j][1] \in {"id", "ID"}
              /\ attrs[j][2].present
              /\ attrs[j][2].v /= ""}}

\* The values of the href attributes of a start tag of an a element: named
\* href in any letter case, with a value (possibly empty).
HrefsCarried(tag, attrs) ==
    IF tag \notin {"a", "A"} THEN {}
    ELSE {attrs[i][2].v : i \in {j \in DOMAIN attrs :
              /\ attrs[j][1] \in {"href", "HREF"}
              /\ attrs[j][2].present}}

\* No script, style, svg or defs anywhere on the stack.
VisibleContext(stack) ==
    \A i \in DOMAIN stack : stack[i] \notin {"script", "style", "svg", "defs"}

(***************************************************************************)
(* The extractor fed one event at a time.  The nesting depth and the       *)
(* number of text nodes are capped by MaxDepth and MaxTexts; the history   *)
(* variables are updated from the event and the stack alone.               *)
(***************************************************************************)
StartTag(tag, attrs) ==
    /\ Len(parser._stack) < MaxDepth
    /\ parser' = handle_starttag(parser, tag, attrs)
    /\ seen_ids' = seen_ids \cup IdsCarried(attrs, parser'._stack)
    /\ seen_hrefs' = seen_hrefs \cup HrefsCarried(tag, attrs)
    /\ suppressed' =
           IF IdsCarried(attrs, <<>>) /= {} /\ IdsCarried(attrs, parser'._stack) = {}
           THEN [suppressed EXCEPT !.id = TRUE]
           ELSE suppressed
    /\ UNCHANGED <<seen_text, prev, last>>
    /\ UNCHANGED main_vars

EndTag(tag) ==
    /\ parser' = handle_endtag(parser, tag)
    /\ UNCHANGED <<seen_ids, seen_hrefs, seen_text, suppressed, prev, last>>
    /\ UNCHANGED main_vars

\* An end tag as the event under observation: the extractor's state before it
\* and the event are kept, and nothing is delivered after it.
EndTagObserved(tag) ==
    /\ last = NoEvent
    /\ parser' = handle_endtag(parser, tag)
    /\ prev' = parser
    /\ last' = EndTagEvent(tag)
    /\ UNCHANGED <<seen_ids, seen_hrefs, seen_text, suppressed>>
    /\ UNCHANGED main_vars

Text(data) ==
    /\ Len(parser.text_nodes) < MaxTexts
    /\ parser' = handle_data(parser, data)
    /\ seen_text' =
           IF VisibleContext(parser._stack) /\ _normalize_text(data) /= <<>>
           THEN Append(seen_text, _normalize_text(data))
           ELSE seen_text
    /\ suppressed' =
           IF ~VisibleContext(parser._stack) /\ _normalize_text(data) /= <<>>
           THEN [suppressed EXCEPT !.text = TRUE]
           ELSE suppressed
    /\ UNCHANGED <<seen_ids, seen_hrefs, prev, last>>
    /\ UNCHANGED main_vars

(***************************************************************************)
(* extract: a document is the sequence of events the tokenizer delivers    *)
(* for the file's text; feed() calls the handler of each event in order.   *)
(***************************************************************************)
RECURSIVE Feed(_, _)
Feed(self, events) ==
    IF events = <<>> THEN self
    ELSE LET e == Head(events)
             after ==
                 CASE e.kind = "start" -> handle_starttag(self, e.name, e.attrs)
                   [] e.kind = "end" -> handle_endtag(self, e.name)
                   [] OTHER -> handle_data(self, e.data)
         IN  Feed(after, Tail(events))

\* What a path names: a file holding a document, or nothing.
File(events) == [exists |-> TRUE, events |-> events]
NoFile == [exists |-> FALSE, events |-> <<>>]

extract(path) == Feed(VariantExtractor, path.events)

(***************************************************************************)
(* _diff_preview.  One entry stands for the two lines "- idx i: base=..."  *)
(* and "var =..."; idx is the code's 0-based index.                        *)
(***************************************************************************)
MISSING == <<"<", "m", "i", "s", "s", "i", "n", "g", ">">>
DiffLimit == 10

RECURSIVE DiffScan(_, _, _, _, _, _)
DiffScan(a, b, limit, i, shown, out) ==
    LET max_len == IF Len(a) >= Len(b) THEN Len(a) ELSE Len(b)
        av == IF i < Len(a) THEN a[i + 1] ELSE MISSING
        bv == IF i < Len(b) THEN b[i + 1] ELSE MISSING
        out1 == Append(out, [idx |-> i, base |-> av, var |-> bv])
    IN  IF i >= max_len THEN out
        ELSE IF av = bv THEN DiffScan(a, b, limit, i + 1, shown, out)
        ELSE IF shown + 1 >= limit THEN out1
        ELSE DiffScan(a, b, limit, i + 1, shown + 1, out1)

_diff_preview(a, b) == DiffScan(a, b, DiffLimit, 0, 0, <<>>)

(***************************************************************************)
(* main.                                                                   *)
(***************************************************************************)
NoReturn == -1

\* Path.exists()
Exists(path) == path.exists

\* collections.Counter(list)
Counter(list) ==
    [t \in Range(list) |-> Cardinality({i \in DOMAIN list : list[i] = t})]

\* The entries a capped listing shows: all of them up to the cap.  (Which
\* entries a longer listing keeps depends on an order on strings.)
MostCommonLimit == 20
SortedLimit == 30
Capped(S, n) ==
    IF Cardinality(S) <= n THEN S
    ELSE CHOOSE T \in SUBSET S : Cardinality(T) = n
most_common(counter, n) == Capped({<<t, counter[t]>> : t \in DOMAIN counter}, n)

\* print(..., file=stream)
Emit(stream, line) == Append(stream, line)

ExtractorIdle ==
    /\ parser = VariantExtractor
    /\ prev = VariantExtractor
    /\ last = NoEvent
    /\ seen_ids = {}
    /\ seen_hrefs = {}
    /\ seen_text = <<>>
    /\ suppressed = [id |-> FALSE, text |-> FALSE]

MainIdle ==
    /\ pc = "idle"
    /\ base = NoFile
    /\ variant = NoFile
    /\ unordered = FALSE
    /\ base_ex = VariantExtractor
    /\ var_ex = VariantExtractor
    /\ ok = FALSE
    /\ extract_calls = 0
    /\ stderr = <<>>
    /\ stdout = <<>>
    /\ rc = NoReturn

\* Lines 107-109.
CheckBase ==
    /\ pc = "check_base"
    /\ IF ~Exists(base)
       THEN /\ stderr' = Emit(stderr, [kind |-> "base_not_found"])
            /\ rc' = 2
            /\ pc' = "done"
       ELSE /\ pc' = "check_variant"
            /\ UNCHANGED <<stderr, rc>>
    /\ UNCHANGED <<base, variant, unordered, base_ex, var_ex, ok, extract_calls, stdout>>
    /\ UNCHANGED extractor_vars

\* Mutant: the missing variant is reported but main does not return.
NoReturnCheckVariant ==
    /\ pc = "check_variant"
    /\ IF ~Exists(variant)
       THEN stderr' = Emit(stderr, [kind |-> "variant_not_found"])
       ELSE UNCHANGED stderr
    /\ pc' = "extract_base"
    /\ UNCHANGED <<base, variant, unordered, base_ex, var_ex, ok, extract_calls, stdout, rc>>
    /\ UNCHANGED extractor_vars

\* Lines 110-112.
CheckVariant ==
    /\ pc = "check_variant"
    /\ IF ~Exists(variant)
       THEN /\ stderr' = Emit(stderr, [kind |-> "variant_not_found"])
            /\ rc' = 2
            /\ pc' = "done"
       ELSE /\ pc' = "extract_base"
            /\ UNCHANGED <<stderr, rc>>
    /\ UNCHANGED <<base, variant, unordered, base_ex, var_ex, ok, extract_calls, stdout>>
    /\ UNCHANGED extractor_vars

\* Line 114.
ExtractBase ==
    /\ pc = "extract_base"
    /\ extract_calls' = extract_calls + 1
    /\ base_ex' = extract(base)
    /\ pc' = "extract_variant"
    /\ UNCHANGED <<base, variant, unordered, var_ex, ok, stderr, stdout, rc>>
    /\ UNCHANGED extractor_vars

\* Lines 115-117.
ExtractVariant ==
    /\ pc = "extract_variant"
    /\ extract_calls' = extract_calls + 1
    /\ var_ex' = extract(variant)
    /\ ok' = TRUE
    /\ pc' = "text"
    /\ UNCHANGED <<base, variant, unordered, base_ex, stderr, stdout, rc>>
    /\ UNCHANGED extractor_vars

\* Mutant: the text nodes are compared as sequences in either mode.
IgnoresModeTextMismatch == base_ex.text_nodes /= var_ex.text_nodes

\* Mutant: the base ids are compared with the variant's hrefs.
AgainstHrefsIdMismatch == base_ex.ids /= var_ex.anchor_hrefs

\* The conditions of the three checks.
TextMismatch ==
    IF unordered
    THEN Counter(base_ex.text_nodes) /= Counter(var_ex.text_nodes)
    ELSE base_ex.text_nodes /= var_ex.text_nodes
IdMismatch == base_ex.ids /= var_ex.ids
HrefMismatch == base_ex.anchor_hrefs /= var_ex.anchor_hrefs

\* The diagnostic of lines 126-138 (unordered) or 142-145 (ordered).
TextDiagnostic ==
    IF unordered
    THEN LET base_counter == Counter(base_ex.text_nodes)
             var_counter == Counter(var_ex.text_nodes)
             missing == base_counter (-) var_counter
             extra == var_counter (-) base_counter
         IN  [kind |-> "text_unordered",
              base_n |-> Len(base_ex.text_nodes),
              var_n |-> Len(var_ex.text_nodes),
              missing |-> most_common(missing, MostCommonLimit),
              extra |-> most_common(extra, MostCommonLimit)]
    ELSE [kind |-> "text",
          base_n |-> Len(base_ex.text_nodes),
          var_n |-> Len(var_ex.text_nodes),
          preview |-> _diff_preview(base_ex.text_nodes, var_ex.text_nodes)]

\* The diagnostic of lines 149-155 and 159-165: the missing and the extra
\* values, each listed (when there are any) with its true count.
SetDiagnostic(kind, base_set, var_set) ==
    LET missing == base_set \ var_set
        extra == var_set \ base_set
    IN  [kind |-> kind,
         n_missing |-> Cardinality(missing),
         missing |-> Capped(missing, SortedLimit),
         n_extra |-> Cardinality(extra),
         extra |-> Capped(extra, SortedLimit)]

\* Lines 119-145.
TextCheck ==
    /\ pc = "text"
    /\ IF TextMismatch
       THEN /\ ok' = FALSE
            /\ stderr' = Emit(stderr, TextDiagnostic)
       ELSE UNCHANGED <<ok, stderr>>
    /\ pc' = "ids"
    /\ UNCHANGED <<base, variant, unordered, base_ex, var_ex, extract_calls, stdout, rc>>
    /\ UNCHANGED extractor_vars

\* Mutant: the id check is skipped once the text check has failed.
ShortCircuitIdCheck ==
    /\ pc = "ids"
    /\ IF ok /\ IdMismatch
       THEN /\ ok' = FALSE
            /\ stderr' = Emit(stderr, SetDiagnostic("ids", base_ex.ids, var_ex.ids))
       ELSE UNCHANGED <<ok, stderr>>
    /\ pc' = "hrefs"
    /\ UNCHANGED <<base, variant, unordered, base_ex, var_ex, extract_calls, stdout, rc>>
    /\ UNCHANGED extractor_vars

\* Lines 147-155.
IdCheck ==
    /\ pc = "ids"
    /\ IF IdMismatch
       THEN /\ ok' = FALSE
            /\ stderr' = Emit(stderr, SetDiagnostic("ids", base_ex.ids, var_ex.ids))
       ELSE UNCHANGED <<ok, stderr>>
    /\ pc' = "hrefs"
    /\ UNCHANGED <<base, variant, unordered, base_ex, var_ex, extract_calls, stdout, rc>>
    /\ UNCHANGED extractor_vars

\* Mutant: an href mismatch is reported but ok is left as it was.
KeepsOkHrefCheck ==
    /\ pc = "hrefs"
    /\ IF HrefMismatch
       THEN stderr' = Emit(stderr, SetDiagnostic("hrefs", base_ex.anchor_hrefs,
                                                 var_ex.anchor_hrefs))
       ELSE UNCHANGED stderr
    /\ pc' = "finish"
    /\ UNCHANGED <<base, variant, unordered, base_ex, var_ex, ok, extract_calls, stdout, rc>>
    /\ UNCHANGED extractor_vars

\* Lines 157-165.
HrefCheck ==
    /\ pc = "hrefs"
    /\ IF HrefMismatch
       THEN /\ ok' = FALSE
            /\ stderr' = Emit(stderr, SetDiagnostic("hrefs", base_ex.anchor_hrefs,
                                                     var_ex.anchor_hrefs))
       ELSE UNCHANGED <<ok, stderr>>
    /\ pc' = "finish"
    /\ UNCHANGED <<base, variant, unordered, base_ex, var_ex, extract_calls, stdout, rc>>
    /\ UNCHANGED extractor_vars

\* Lines 167-171.
Finish ==
    /\ pc = "finish"
    /\ IF ok
       THEN /\ stdout' = Emit(stdout, "OK")
            /\ rc' = 0
       ELSE /\ rc' = 1
            /\ UNCHANGED stdout
    /\ pc' = "done"
    /\ UNCHANGED <<base, variant, unordered, base_ex, var_ex, ok, extract_calls, stderr>>
    /\ UNCHANGED extractor_vars

NextMain ==
    \/ CheckBase
    \/ CheckVariant
    \/ ExtractBase
    \/ ExtractVariant
    \/ TextCheck
    \/ IdCheck
    \/ HrefCheck
    \/ Finish

\* The documents given to main: text, an element with an id and an anchor.
DocEvents ==
    { TextEvent(<<"h">>), TextEvent(<<"w">>),
      StartTagEvent("div", << <<"id", Some("x")>> >>),
      StartTagEvent("a", << <<"href", Some("x")>> >>) }
Docs == {File(d) : d \in SeqsUpTo(DocEvents, MaxDocLen)}

\* main called with two paths, each naming a document or nothing, and with
\* or without --unordered-text.
InitMainWith(base_files, variant_files, modes) ==
    /\ ExtractorIdle
    /\ pc = "check_base"
    /\ base \in base_files
    /\ variant \in variant_files
    /\ unordered \in modes
    /\ base_ex = VariantExtractor
    /\ var_ex = VariantExtractor
    /\ ok = FALSE
    /\ extract_calls = 0
    /\ stderr = <<>>
    /\ stdout = <<>>
    /\ rc = NoReturn

InitMain == InitMainWith(Docs \cup {NoFile}, Docs \cup {NoFile}, BOOLEAN)

SpecMain == InitMain /\ [][NextMain]_vars

\* Documents of text only, long enough for the preview's limit: the base is
\* a run of one text, possibly ending in the text "<missing>", the variant
\* any sequence of two texts.
TextDoc(texts) == File([i \in DOMAIN texts |-> TextEvent(texts[i])])
BaseTexts ==
    LET runs == {[i \in 1..n |-> <<"h">>] : n \in 0..(MaxNodes - 1)}
    IN  runs \cup {Append(r, MISSING) : r \in runs}
VariantTexts == SeqsUpTo({<<"h">>, <<"w">>}, MaxNodes)

InitDiff ==
    InitMainWith({TextDoc(t) : t \in BaseTexts}, {TextDoc(t) : t \in VariantTexts}, {FALSE})

SpecDiff == InitDiff /\ [][NextMain]_vars

(***************************************************************************)
(* Specifications of the extractor.                                        *)
(***************************************************************************)
InitExtractor == ExtractorIdle /\ MainIdle

NextAttrs ==
    \/ \E tag \in AttrTags, attrs \in AttrLists : StartTag(tag, attrs)
    \/ \E tag \in AttrTags : EndTag(tag)

SpecAttrs == InitExtractor /\ [][NextAttrs]_vars

NextText ==
    \/ \E tag \in TextTags, attrs \in TextAttrLists : StartTag(tag, attrs)
    \/ \E tag \in TextTags : EndTag(tag)
    \/ \E data \in Chunks : Text(data)

SpecText == InitExtractor /\ [][NextText]_vars

\* Any events, then one observed end tag.
NextEnd ==
    \/ \E tag \in TextTags, attrs \in TextAttrLists : last = NoEvent /\ StartTag(tag, attrs)
    \/ \E tag \in TextTags : last = NoEvent /\ EndTag(tag)
    \/ \E data \in Chunks : last = NoEvent /\ Text(data)
    \/ \E tag \in TextTags : EndTagObserved(tag)

SpecEnd == InitExtractor /\ [][NextEnd]_vars

(***************************************************************************)
(* Properties of main.                                                     *)
(***************************************************************************)
\* The three checks in the words of the specification, on the extraction
\* results of the two documents.
CountOf(t, list) == Cardinality({i \in DOMAIN list : list[i] = t})
SameMultiset(a, b) == \A t \in Range(a) \cup Range(b) : CountOf(t, a) = CountOf(t, b)
BothExist == base.exists /\ variant.exists
Returned == pc = "done"
TextPasses ==
    IF unordered
    THEN SameMultiset(extract(base).text_nodes, extract(variant).text_nodes)
    ELSE extract(base).text_nodes = extract(variant).text_nodes
IdsPass == extract(base).ids = extract(variant).ids
HrefsPass == extract(base).anchor_hrefs = extract(variant).anchor_hrefs
Reported(kinds) == Cardinality({i \in DOMAIN stderr : stderr[i].kind \in kinds})

\* C1: when both paths exist, main returns 0 and prints OK exactly when the
\* text check (in the selected mode), the id check and the href check all
\* pass; otherwise it returns 1 and prints no OK.
C1_ExitStatus ==
    (Returned /\ BothExist) =>
        IF TextPasses /\ IdsPass /\ HrefsPass
        THEN rc = 0 /\ stdout = <<"OK">>
        ELSE rc = 1 /\ stdout = <<>>

\* A run that fails on the href check alone.
C1_Witness ==
    /\ Returned /\ BothExist
    /\ TextPasses /\ IdsPass /\ ~HrefsPass
    /\ rc = 1

\* C2 as stated: a missing path gives status 2 with no extraction started,
\* and the error output names every missing path, also when both are missing.
C2_NamesEveryMissingPath ==
    (Returned /\ ~BothExist) =>
        /\ rc = 2
        /\ extract_calls = 0
        /\ ~base.exists => Reported({"base_not_found"}) = 1
        /\ ~variant.exists => Reported({"variant_not_found"}) = 1

\* C2 amended: a missing path gives status 2, no extraction is ever started,
\* and the error output is one line, naming the base path when that is
\* missing and the variant path otherwise.
C2_NamesFirstMissingPath ==
    ~BothExist =>
        /\ extract_calls = 0
        /\ stdout = <<>>
        /\ Returned =>
            /\ rc = 2
            /\ stderr = << [kind |-> IF ~base.exists THEN "base_not_found"
                                     ELSE "variant_not_found"] >>

\* Both paths missing: only the base path is named.
C2_Witness ==
    /\ Returned
    /\ ~base.exists /\ ~variant.exists
    /\ rc = 2
    /\ stderr = << [kind |-> "base_not_found"] >>

\* C3: when both documents are read, each check's diagnostic is emitted
\* (once) exactly when that check fails, whatever the other two checks do.
C3_IndependentChecks ==
    (Returned /\ BothExist) =>
        /\ Reported({"text", "text_unordered"}) = (IF TextPasses THEN 0 ELSE 1)
        /\ Reported({"ids"}) = (IF IdsPass THEN 0 ELSE 1)
        /\ Reported({"hrefs"}) = (IF HrefsPass THEN 0 ELSE 1)
        /\ Reported({IF unordered THEN "text" ELSE "text_unordered"}) = 0

\* A run in which the text check fails and the id and href diagnostics are
\* emitted all the same.
C3_Witness ==
    /\ Returned /\ BothExist
    /\ ~TextPasses /\ ~IdsPass /\ ~HrefsPass
    /\ Len(stderr) = 3

\* C6: for documents whose text nodes are the same multiset in a different
\* order, the text check fails in ordered mode and passes in unordered mode;
\* the id and href checks fail exactly when the sets differ, which does not
\* depend on the mode, so their outcomes are the same in both modes.
C6_OrderSensitivity ==
    LET a == extract(base).text_nodes
        b == extract(variant).text_nodes
    IN  (Returned /\ BothExist /\ SameMultiset(a, b) /\ a /= b) =>
            /\ Reported({"text", "text_unordered"}) = (IF unordered THEN 0 ELSE 1)
            /\ Reported({"ids"}) =
                   (IF extract(base).ids = extract(variant).ids THEN 0 ELSE 1)
            /\ Reported({"hrefs"}) =
                   (IF extract(base).anchor_hrefs = extract(variant).anchor_hrefs
                    THEN 0 ELSE 1)

\* Permuted text in unordered mode: the text check passes and the id check
\* still fails.
C6_Witness ==
    /\ Returned /\ BothExist /\ unordered
    /\ SameMultiset(base_ex.text_nodes, var_ex.text_nodes)
    /\ base_ex.text_nodes /= var_ex.text_nodes
    /\ Reported({"text", "text_unordered"}) = 0
    /\ Reported({"ids"}) = 1
    /\ rc = 1

\* C7: the same document as base and as variant passes all three checks in
\* either mode: main returns 0, prints OK and emits no diagnostic.
C7_Identity ==
    (Returned /\ BothExist /\ base = variant) =>
        /\ rc = 0
        /\ stdout = <<"OK">>
        /\ stderr = <<>>

\* A document with text, an id and an href compared with itself.
C7_Witness ==
    /\ Returned /\ BothExist /\ base = variant
    /\ base_ex.text_nodes /= <<>> /\ base_ex.ids /= {} /\ base_ex.anchor_hrefs /= {}
    /\ rc = 0

\* C9: whenever the ordered text check fails, the preview has between 1 and
\* 10 entries, the first at the first index where the sequences diverge, and
\* an index past the end of a sequence shows <missing> on that side.
FirstDivergence(a, b) ==
    CHOOSE i \in 0..(Len(a) + Len(b)) :
        /\ i >= Len(a) \/ i >= Len(b) \/ a[i + 1] /= b[i + 1]
        /\ \A j \in 0..(i - 1) : j < Len(a) /\ j < Len(b) /\ a[j + 1] = b[j + 1]
PreviewAsSpecified(a, b, preview) ==
    /\ Len(preview) >= 1
    /\ Len(preview) <= 10
    /\ preview[1].idx = FirstDivergence(a, b)
    /\ \A k \in DOMAIN preview :
        /\ preview[k].idx >= Len(a) => preview[k].base = MISSING
        /\ preview[k].idx >= Len(b) => preview[k].var = MISSING
C9_PreviewShowsDivergence ==
    LET a == extract(base).text_nodes
        b == extract(variant).text_nodes
    IN  (Returned /\ BothExist /\ ~unordered /\ a /= b) =>
            /\ Reported({"text"}) = 1
            /\ \A i \in DOMAIN stderr :
                   stderr[i].kind = "text" => PreviewAsSpecified(a, b, stderr[i].preview)

(***************************************************************************)
(* Properties of the extractor.                                            *)
(***************************************************************************)
\* C4: ids holds exactly the non-empty values of the id attributes (in any
\* letter case) of the start tags delivered while no svg was on the stack,
\* the tag itself included.
C4_IdsOutsideSvg == parser.ids = seen_ids

\* An id was delivered on or inside an svg and another one outside.
C4_Witness ==
    /\ suppressed.id
    /\ parser.ids = {"y"}
    /\ \E i \in DOMAIN parser._stack : parser._stack[i] = "svg"

\* C10: anchor_hrefs holds exactly the values (possibly empty) of the href
\* attributes (in any letter case) that have a value, of the start tags of a
\* elements (in any letter case), wherever the element is.
C10_AnchorHrefs == parser.anchor_hrefs = seen_hrefs

\* An anchor inside an svg, and an empty href collected.
C10_Witness ==
    /\ parser._stack = <<"svg", "a">>
    /\ parser.anchor_hrefs = {"", "x"}
    /\ parser.ids = {}

\* C5: text_nodes holds, in order, exactly the non-empty normalized forms
\* of the chunks delivered while none of script, style, svg, defs was
\* anywhere on the stack.
C5_VisibleText == parser.text_nodes = seen_text

\* Text was delivered inside an excluded element, and text outside was kept
\* in order.
C5_Witness ==
    /\ suppressed.text
    /\ parser.text_nodes = << <<"h", " ", "w">>, <<"w">> >>

\* C8: an end tag truncates the stack to the entries below the topmost
\* occurrence of its lower-cased name, or leaves it alone when the name is
\* not on the stack; text_nodes, ids and anchor_hrefs are unchanged.
TopmostIndex(stack, name) ==
    CHOOSE i \in DOMAIN stack :
        stack[i] = name /\ \A j \in DOMAIN stack : stack[j] = name => j <= i
C8_EndTagTruncates ==
    last.kind = "end" =>
        LET name == Lower(last.name)
            before == prev._stack
        IN  /\ IF \E i \in DOMAIN before : before[i] = name
               THEN parser._stack = SubSeq(before, 1, TopmostIndex(before, name) - 1)
               ELSE parser._stack = before
            /\ parser.text_nodes = prev.text_nodes
            /\ parser.ids = prev.ids
            /\ parser.anchor_hrefs = prev.anchor_hrefs

\* An end tag that closes the element below the top of the stack, with
\* text, an id and an href already collected.
C8_Witness ==
    /\ last.kind = "end"
    /\ Len(prev._stack) = 2 /\ prev._stack[2] /= Lower(last.name)
    /\ parser._stack = <<>>
    /\ parser.text_nodes /= <<>> /\ parser.ids /= {} /\ parser.anchor_hrefs /= {}

====
